---------------------------- MODULE Spec2Model ----------------------------
(***************************************************************************)
(* Internship application agent: job search with retry, job filtering and  *)
(* de-duplication, contact e-mail extraction, e-mail filtering and the     *)
(* main workflow with its daily send ledger.                               *)
(*                                                                         *)
(* Strings are sequences of one-character strings, so that lower(),        *)
(* startswith(), `in`, strip(), replace() and split() are computed on the  *)
(* characters as Python computes them.                                     *)
(***************************************************************************)
EXTENDS Integers, Sequences, FiniteSets, TLC

(***************************************************************************)
(* Python str primitives                                                   *)
(***************************************************************************)
UpperLetters ==
    <<"A","B","C","D","E","F","G","H","I","J","K","L","M",
      "N","O","P","Q","R","S","T","U","V","W","X","Y","Z">>

LowerLetters ==
    <<"a","b","c","d","e","f","g","h","i","j","k","l","m",
      "n","o","p","q","r","s","t","u","v","w","x","y","z">>

Digits == {"0","1","2","3","4","5","6","7","8","9"}

IsUpper(c) == \E i \in DOMAIN UpperLetters : UpperLetters[i] = c

IsLetter(c) == IsUpper(c) \/ \E i \in DOMAIN LowerLetters : LowerLetters[i] = c

\* str.lower() on one character
LowerChar(c) ==
    IF IsUpper(c)
      THEN LowerLetters[CHOOSE i \in DOMAIN UpperLetters : UpperLetters[i] = c]
      ELSE c

\* str.lower()
Lower(s) == [i \in DOMAIN s |-> LowerChar(s[i])]

\* s.startswith(p)
StartsWith(s, p) ==
    /\ Len(p) <= Len(s)
    /\ \A i \in 1..Len(p) : s[i] = p[i]

\* the occurrence of p in s at position i
OccursAt(s, p, i) ==
    /\ i >= 1
    /\ i + Len(p) - 1 <= Len(s)
    /\ \A k \in 1..Len(p) : s[i + k - 1] = p[k]

\* p in s
Contains(s, p) == \E i \in 1..(Len(s) + 1) : OccursAt(s, p, i)

\* s[i:] in Python terms, 1-based here: the characters from position i on
From(s, i) == IF i > Len(s) THEN <<>> ELSE SubSeq(s, i, Len(s))

\* str.strip(): leading and trailing blanks removed
RECURSIVE LStrip(_)
LStrip(s) == IF s # <<>> /\ Head(s) = " " THEN LStrip(Tail(s)) ELSE s

RECURSIVE RStrip(_)
RStrip(s) ==
    IF s # <<>> /\ s[Len(s)] = " " THEN RStrip(SubSeq(s, 1, Len(s) - 1)) ELSE s

Strip(s) == RStrip(LStrip(s))

\* s.replace(p, "") for a non-empty p: every occurrence removed, left to right
RECURSIVE RemoveAll(_, _)
RemoveAll(s, p) ==
    IF s = <<>> THEN <<>>
    ELSE IF OccursAt(s, p, 1) THEN RemoveAll(From(s, Len(p) + 1), p)
    ELSE <<Head(s)>> \o RemoveAll(Tail(s), p)

\* s.split(c)[0]: the part before the first c, all of s without a c
RECURSIVE SplitFirst(_, _)
SplitFirst(s, c) ==
    IF s = <<>> \/ Head(s) = c THEN <<>>
    ELSE <<Head(s)>> \o SplitFirst(Tail(s), c)

\* s.split(c)[-1]: the part after the last c, all of s without a c
RECURSIVE SplitLast(_, _)
SplitLast(s, c) ==
    IF \E i \in DOMAIN s : s[i] = c
      THEN SplitLast(Tail(s), c)
      ELSE s

\* the elements of a sequence
Range(s) == {s[i] : i \in DOMAIN s}

\* the sequences over S of length at most n
SeqsUpTo(S, n) == UNION {[1..k -> S] : k \in 0..n}

\* list(set(s)): the lists holding each element of the set once, in any order
ListsOfSet(S) ==
    {l \in [1..Cardinality(S) -> S] : Range(l) = S}

\* the entries of x at the positions of I from position i on, in the order of x
RECURSIVE PickAt(_, _, _)
PickAt(x, I, i) ==
    IF i > Len(x) THEN <<>>
    ELSE (IF i \in I THEN <<x[i]>> ELSE <<>>) \o PickAt(x, I, i + 1)

IsPrefixOf(p, s) == Len(p) <= Len(s) /\ \A i \in DOMAIN p : p[i] = s[i]

NoDuplicates(l) == \A i, j \in DOMAIN l : l[i] = l[j] => i = j

(***************************************************************************)
(* Some strings of the examples                                            *)
(***************************************************************************)
CareersAtAcme == <<"c","a","r","e","e","r","s","@","a","c","m","e",".","c","o","m">>
BobAtAcme     == <<"b","o","b","@","a","c","m","e",".","c","o","m">>
HRAtAcmeCaps  == <<"H","R","@","A","c","m","e",".","c","o","m">>
HrAtAcmeNoTld == <<"h","r","@","a","c","m","e">>
HrDotAcme     == <<"h","r",".","a","c","m","e",".","c","o","m">>
JobsAtFooIo   == <<"j","o","b","s","@","f","o","o",".","i","o">>
CareersAtPfx  == <<"c","a","r","e","e","r","s","@">>
HrAtPfx       == <<"h","r","@">>
HRCapsPfx     == <<"H","R">>
JobsAtPfx     == <<"j","o","b","s","@">>
AcmeCom       == <<"a","c","m","e",".","c","o","m">>
FooIo         == <<"f","o","o",".","i","o">>
NoneValue     == <<"<None>">>
AcmePadded    == <<" ","A","c","m","e"," ">>
AcmeCaps      == <<"A","C","M","E">>
HireAgency    == <<"H","i","r","e"," ","A","g","e","n","c","y">>
Beta          == <<"B","e","t","a">>
Dev           == <<"D","e","v">>
DevLower      == <<"d","e","v">>
SeniorDev     == <<"S","e","n","i","o","r"," ","D","e","v">>
RemoteDev     == <<"R","e","m","o","t","e"," ","D","e","v">>
Remote        == <<"R","e","m","o","t","e">>
RemoteUsa     == <<"R","e","m","o","t","e",","," ","U","S","A">>
Pune          == <<"P","u","n","e">>
Usa           == <<"U","S","A">>
Python        == <<"P","y","t","h","o","n">>
RemotePython  == <<"r","e","m","o","t","e"," ","p","y","t","h","o","n">>
Java          == <<"j","a","v","a">>
Agency        == <<"a","g","e","n","c","y">>
Senior        == <<"s","e","n","i","o","r">>
UrlA          == <<"h","t","t","p",":","/","/","a",".","i","o","/">>
UrlAJob       == <<"h","t","t","p",":","/","/","a",".","i","o","/","j","o","b","s","/","1">>
MailtoScheme  == <<"m","a","i","l","t","o",":">>
HttpPrefix    == <<"h","t","t","p">>
ContactWord   == <<"c","o","n","t","a","c","t">>
CareerWord    == <<"c","a","r","e","e","r">>
AboutWord     == <<"a","b","o","u","t">>
UrlB          == <<"h","t","t","p",":","/","/","b",".","i","o","/">>


(***************************************************************************)
(* State                                                                   *)
(***************************************************************************)
VARIABLES
    \* filter_emails (utils.py): its arguments, its position and its result
    fe_emails, fe_prefixes, fe_domain, fe_pc, fe_result,
    \* SearchAgent helpers (search_agent.py): the filters of the configuration,
    \* a list of jobs, the position, and the lists computed from it
    jb_filters, jb_jobs, jb_pc, jb_filtered, jb_deduped, jb_deduped2,
    \* extract_emails_from_url (parser.py): the url, the position, the set
    \* emails, the links to follow and the index of the next one, every request
    \* made so far with its response, and the list returned
    ps_url, ps_pc, ps_emails, ps_links, ps_k, ps_fetched, ps_result,
    \* main (main.py): the configuration read at start, the ledger file
    \* data/sent_log.csv, the position in main and how the run ended
    config, ledger, pc, stop,
    \* the keyword loop: the index of the keyword and the jobs collected
    kw_idx, all_jobs,
    \* search_jobs (search_agent.py), the call in progress: the attempt number,
    \* the attempts on which the provider was called, the delays slept, the
    \* failure of each failed attempt, whether the call returned, and its result
    attempt, calls, sleeps, sj_faults, sj_returned, sj_result,
    \* the job loop: the index of the job, emails_sent_session, the address
    \* picked for the job, and what became of each job met so far
    job_idx, emails_sent_session, target_email, job_outcome,
    \* _get_backoff_delay (search_agent.py): delay_seconds, the attempt, the
    \* value random.uniform drew, the position and the delay returned
    bk_delay_seconds, bk_attempt, bk_jitter, bk_pc, bk_delay,
    \* search_google_general (search_agent.py): the api key, the entries of the
    \* lru_cache from least to most recently used, the number of calls made and
    \* of provider requests made, and the last call
    gs_api_key, gs_cache, gs_calls, gs_requests, gs_last

mainVars == <<config, ledger, pc, stop, kw_idx, all_jobs,
              attempt, calls, sleeps, sj_faults, sj_returned, sj_result,
              job_idx, emails_sent_session, target_email, job_outcome>>

mainIdle ==
    /\ config = <<>> /\ ledger = <<>> /\ pc = "idle" /\ stop = "none"
    /\ kw_idx = 0 /\ all_jobs = <<>>
    /\ attempt = 0 /\ calls = <<>> /\ sleeps = <<>> /\ sj_faults = <<>>
    /\ sj_returned = FALSE /\ sj_result = <<>>
    /\ job_idx = 0 /\ emails_sent_session = 0 /\ target_email = <<>>
    /\ job_outcome = <<>>

psVars == <<ps_url, ps_pc, ps_emails, ps_links, ps_k, ps_fetched, ps_result>>

psIdle ==
    /\ ps_url = <<>> /\ ps_pc = "idle" /\ ps_emails = {} /\ ps_links = <<>>
    /\ ps_k = 0 /\ ps_fetched = <<>> /\ ps_result = <<>>

feVars == <<fe_emails, fe_prefixes, fe_domain, fe_pc, fe_result>>

jbVars == <<jb_filters, jb_jobs, jb_pc, jb_filtered, jb_deduped, jb_deduped2>>

bkVars == <<bk_delay_seconds, bk_attempt, bk_jitter, bk_pc, bk_delay>>

bkIdle ==
    /\ bk_delay_seconds = 0 /\ bk_attempt = 0 /\ bk_jitter = 0
    /\ bk_pc = "idle" /\ bk_delay = 0

gsVars == <<gs_api_key, gs_cache, gs_calls, gs_requests, gs_last>>

gsIdle ==
    /\ gs_api_key = FALSE /\ gs_cache = <<>> /\ gs_calls = 0
    /\ gs_requests = 0 /\ gs_last = <<>>

vars == <<feVars, jbVars, psVars, mainVars, bkVars, gsVars>>

\* the variables of a part that is not running
feIdle ==
    /\ fe_emails = <<>> /\ fe_prefixes = <<>> /\ fe_domain = <<>>
    /\ fe_pc = "idle" /\ fe_result = <<>>

jbIdle ==
    /\ jb_filters = <<>> /\ jb_jobs = <<>> /\ jb_pc = "idle"
    /\ jb_filtered = <<>> /\ jb_deduped = <<>> /\ jb_deduped2 = <<>>

(***************************************************************************)
(* utils.py: validate_email_address, filter_emails                         *)
(***************************************************************************)
\* the characters email-validator accepts in an unquoted local part, besides
\* letters and digits
ATextSymbols == {"!","#","$","%","&","*","+","-","/","=","?","^","_","{","|","}","~"}

IsAText(c) == IsLetter(c) \/ c \in Digits \/ c \in ATextSymbols

IsDomainChar(c) == IsLetter(c) \/ c \in Digits \/ c = "-"

\* dot-separated atoms: no empty atom, so no leading, trailing or doubled dot
DotAtomShape(s) ==
    /\ s # <<>>
    /\ s[1] # "." /\ s[Len(s)] # "."
    /\ \A i \in 1..(Len(s) - 1) : ~(s[i] = "." /\ s[i + 1] = ".")

\* a domain name: labels of letters, digits and inner hyphens, with a period
ValidDomainPart(d) ==
    /\ DotAtomShape(d)
    /\ \A i \in DOMAIN d : d[i] = "." \/ IsDomainChar(d[i])
    /\ \E i \in DOMAIN d : d[i] = "."
    /\ \A i \in DOMAIN d :
         d[i] = "-" => /\ i > 1 /\ i < Len(d)
                       /\ d[i - 1] # "." /\ d[i + 1] # "."

\* validate_email(email, check_deliverability=False) raises no EmailNotValidError
validate_email_address(email) ==
    /\ Cardinality({i \in DOMAIN email : email[i] = "@"}) = 1
    /\ LET at == CHOOSE i \in DOMAIN email : email[i] = "@"
           local == SubSeq(email, 1, at - 1)
       IN /\ DotAtomShape(local)
          /\ \A i \in DOMAIN local : local[i] = "." \/ IsAText(local[i])
          /\ at - 1 <= 64
          /\ ValidDomainPart(From(email, at + 1))

\* `if company_domain:` None and the empty string are both false
IsTruthy(s) == s # NoneValue /\ s # <<>>

\* step 1 of the loop body: whether the candidate goes on to the prefix check.
\* With a company domain, a match passes and a mismatch is logged; both go on.
DomainCheckGoesOn_Rejecting(email, company_domain) ==
    IF IsTruthy(company_domain)
      THEN Contains(SplitLast(email, "@"), company_domain)
      ELSE TRUE

DomainCheckGoesOn(email, company_domain) ==
    IF IsTruthy(company_domain)
      THEN IF Contains(SplitLast(email, "@"), company_domain)
             THEN TRUE
             ELSE TRUE
      ELSE TRUE

\* step 2: email.lower().startswith(prefix.lower()) for some prefix
IsAllowedPrefix(email, allowed_prefixes) ==
    \E i \in DOMAIN allowed_prefixes :
        StartsWith(Lower(email), Lower(allowed_prefixes[i]))

\* the list valid_emails at the end of the loop
RECURSIVE ValidEmailsLoop(_, _, _)
ValidEmailsLoop(emails, allowed_prefixes, company_domain) ==
    IF emails = <<>> THEN <<>>
    ELSE LET email == Head(emails)
             rest  == ValidEmailsLoop(Tail(emails), allowed_prefixes, company_domain)
         IN IF ~validate_email_address(email) THEN rest
            ELSE IF ~DomainCheckGoesOn(email, company_domain) THEN rest
            ELSE IF IsAllowedPrefix(email, allowed_prefixes) THEN <<email>> \o rest
            ELSE rest

\* the values filter_emails can return: list(set(valid_emails)), in any order
filter_emails(emails, allowed_prefixes, company_domain) ==
    ListsOfSet(Range(ValidEmailsLoop(emails, allowed_prefixes, company_domain)))

(***************************************************************************)
(* filter_emails called on bounded inputs                                  *)
(***************************************************************************)
MaxEmails == 3

EmailPool == {CareersAtAcme, BobAtAcme, HRAtAcmeCaps, HrAtAcmeNoTld, HrDotAcme}

PrefixLists ==
    { <<>>, <<CareersAtPfx, HrAtPfx>>, <<HRCapsPfx>>, <<JobsAtPfx, CareersAtPfx>> }

CompanyDomains == {NoneValue, <<>>, AcmeCom, FooIo}

EmailInit ==
    /\ fe_emails \in SeqsUpTo(EmailPool, MaxEmails)
    /\ fe_prefixes \in PrefixLists
    /\ fe_domain \in CompanyDomains
    /\ fe_pc = "call"
    /\ fe_result = <<>>
    /\ jbIdle /\ psIdle /\ mainIdle /\ bkIdle /\ gsIdle

FilterEmailsCall ==
    /\ fe_pc = "call"
    /\ fe_result' \in filter_emails(fe_emails, fe_prefixes, fe_domain)
    /\ fe_pc' = "returned"
    /\ UNCHANGED <<fe_emails, fe_prefixes, fe_domain>>
    /\ UNCHANGED <<jbVars, psVars, mainVars, bkVars, gsVars>>

EmailNext == FilterEmailsCall

EmailSpec == EmailInit /\ [][EmailNext]_vars

\* C3: filter_emails admits a candidate if and only if it is syntactically
\* valid and, lower-cased, starts with a lower-cased entry of allowed_prefixes,
\* whatever company_domain is (absent, empty, matching or not); the result
\* holds no address twice; and prefixes careers@, hr@ over careers@acme.com,
\* bob@acme.com, HR@Acme.com admit exactly careers@acme.com and HR@Acme.com.
C3_Admitted ==
    { fe_emails[i] : i \in { k \in DOMAIN fe_emails :
          /\ validate_email_address(fe_emails[k])
          /\ \E p \in Range(fe_prefixes) :
                 StartsWith(Lower(fe_emails[k]), Lower(p)) } }

C3_PrefixRuleOnly ==
    fe_pc = "returned" =>
        /\ Range(fe_result) = C3_Admitted
        /\ NoDuplicates(fe_result)
        /\ ( /\ Range(fe_emails) = {CareersAtAcme, BobAtAcme, HRAtAcmeCaps}
             /\ fe_prefixes = <<CareersAtPfx, HrAtPfx>> )
           => Range(fe_result) = {CareersAtAcme, HRAtAcmeCaps}

C3_Witness ==
    /\ fe_pc = "returned"
    /\ fe_emails = <<CareersAtAcme, BobAtAcme, HRAtAcmeCaps>>
    /\ fe_prefixes = <<CareersAtPfx, HrAtPfx>>
    /\ fe_domain = FooIo
    /\ Range(fe_result) = {CareersAtAcme, HRAtAcmeCaps}


(***************************************************************************)
(* search_agent.py: _parse_job, _is_valid_job, _filter_jobs,               *)
(* _deduplicate_jobs                                                       *)
(***************************************************************************)
\* dict.get(key, default)
Get(d, key, default) == IF key \in DOMAIN d THEN d[key] ELSE default

\* _extract_link, _extract_apply_link: the first entry's link, None without one
FirstLink(entries) ==
    IF entries = <<>> THEN NoneValue ELSE Get(entries[1], "link", NoneValue)

_parse_job(job) ==
    [ company     |-> Strip(Get(job, "company_name", <<>>)),
      title       |-> Strip(Get(job, "title", <<>>)),
      location    |-> Strip(Get(job, "location", <<>>)),
      description |-> Strip(Get(job, "description", <<>>)),
      link        |-> FirstLink(Get(job, "related_links", <<>>)),
      apply_link  |-> FirstLink(Get(job, "apply_options", <<>>)),
      via         |-> Get(job, "via", NoneValue),
      detected_extensions |-> Get(job, "detected_extensions", <<>>) ]

RemoteWord == <<"r","e","m","o","t","e">>

\* any(kw.lower() in text for kw in keywords)
AnyKeywordIn(keywords, text) ==
    \E i \in DOMAIN keywords : Contains(text, Lower(keywords[i]))

\* the remote filter lets the job through
RemoteCheckPasses(f, location, title, description) ==
    f.remote_only =>
        \/ Contains(location, RemoteWord)
        \/ Contains(title, RemoteWord)
        \/ Contains(description, RemoteWord)

\* the location whitelist lets the job through
LocationCheckPasses_SkippedForRemote(f, location) ==
    \/ f.remote_only
    \/ f.locations = <<>>
    \/ AnyKeywordIn(f.locations, location)

LocationCheckPasses(f, location) ==
    \/ f.locations = <<>>
    \/ AnyKeywordIn(f.locations, location)

_is_valid_job(job, f) ==
    LET company     == Lower(job.company)
        title       == Lower(job.title)
        location    == Lower(job.location)
        description == Lower(job.description)
    IN IF AnyKeywordIn(f.company_exclude_keywords, company) THEN FALSE
       ELSE IF /\ f.include_keywords # <<>>
               /\ ~AnyKeywordIn(f.include_keywords, title \o description)
         THEN FALSE
       ELSE IF ~RemoteCheckPasses(f, location, title, description) THEN FALSE
       ELSE IF ~LocationCheckPasses(f, location) THEN FALSE
       ELSE IF AnyKeywordIn(f.exclude_seniority_levels, title) THEN FALSE
       ELSE TRUE

RECURSIVE _filter_jobs(_, _)
_filter_jobs(jobs, f) ==
    IF jobs = <<>> THEN <<>>
    ELSE IF _is_valid_job(Head(jobs), f)
      THEN <<Head(jobs)>> \o _filter_jobs(Tail(jobs), f)
      ELSE _filter_jobs(Tail(jobs), f)

\* key = (job.get("title", "").lower(), job.get("company", "").lower())
DedupKey_CaseSensitive(job) == <<job.title, job.company>>

DedupKey(job) == <<Lower(job.title), Lower(job.company)>>

\* the loop of _deduplicate_jobs from a given state of seen and deduped
RECURSIVE DedupLoop(_, _, _)
DedupLoop(jobs, seen, deduped) ==
    IF jobs = <<>> THEN deduped
    ELSE LET key == DedupKey(Head(jobs))
         IN IF key \notin seen
              THEN DedupLoop(Tail(jobs), seen \cup {key}, Append(deduped, Head(jobs)))
              ELSE DedupLoop(Tail(jobs), seen, deduped)

_deduplicate_jobs(jobs) == DedupLoop(jobs, {}, <<>>)


\* search_jobs lines 64-65 with the steps exchanged
FilterThenDedup_DedupFirst(jobs, f) == _filter_jobs(_deduplicate_jobs(jobs), f)

\* filtered_jobs = self._filter_jobs(parsed_jobs)
\* deduped_jobs = self._deduplicate_jobs(filtered_jobs)
FilterThenDedup(jobs, f) == _deduplicate_jobs(_filter_jobs(jobs, f))

(***************************************************************************)
(* _filter_jobs and _deduplicate_jobs called on bounded inputs             *)
(***************************************************************************)
MaxJobs == 3

\* provider records: blanks around fields, missing fields, one or no link
RawAcmeDev ==
    [company_name |-> AcmePadded, title |-> Dev, location |-> Remote,
     description |-> Python, related_links |-> <<[link |-> UrlA]>>]

RawAcmeDevAgain ==
    [company_name |-> AcmeCaps, title |-> DevLower, location |-> Pune,
     description |-> RemotePython, apply_options |-> <<[link |-> UrlB]>>]

RawAgencyDev ==
    [company_name |-> HireAgency, title |-> Dev, location |-> Usa,
     description |-> Java, related_links |-> <<[link |-> UrlB]>>]

RawSeniorDev ==
    [company_name |-> AcmePadded, title |-> SeniorDev, location |-> RemoteUsa,
     description |-> Python, related_links |-> <<[text |-> Dev]>>]

RawBetaNoLink == [company_name |-> Beta, title |-> RemoteDev, location |-> Pune]

RawBetaOps ==
    [company_name |-> Beta, title |-> Remote, location |-> Usa,
     apply_options |-> <<[link |-> UrlB]>>]

RawNullTitle == [company_name |-> Beta, title |-> NoneValue]

RawJobPool ==
    {RawAcmeDev, RawAcmeDevAgain, RawAgencyDev, RawSeniorDev, RawBetaNoLink}

JobPool == {_parse_job(r) : r \in RawJobPool}

FilterConfigs ==
    [ company_exclude_keywords : {<<>>, <<Agency>>},
      include_keywords         : {<<>>, <<Python, Java>>},
      remote_only              : BOOLEAN,
      locations                : {<<>>, <<Usa, Pune>>},
      exclude_seniority_levels : {<<>>, <<Senior>>} ]

JobInit ==
    /\ jb_filters \in FilterConfigs
    /\ jb_jobs \in SeqsUpTo(JobPool, MaxJobs)
    /\ jb_pc = "start"
    /\ jb_filtered = <<>> /\ jb_deduped = <<>> /\ jb_deduped2 = <<>>
    /\ feIdle /\ psIdle /\ mainIdle /\ bkIdle /\ gsIdle

FilterJobsCall ==
    /\ jb_pc = "start"
    /\ jb_filtered' = _filter_jobs(jb_jobs, jb_filters)
    /\ jb_pc' = "filtered"
    /\ UNCHANGED <<jb_filters, jb_jobs, jb_deduped, jb_deduped2>>
    /\ UNCHANGED <<feVars, psVars, mainVars, bkVars, gsVars>>

DeduplicateCall ==
    /\ jb_pc = "filtered"
    /\ jb_deduped' = _deduplicate_jobs(jb_filtered)
    /\ jb_pc' = "deduped"
    /\ UNCHANGED <<jb_filters, jb_jobs, jb_filtered, jb_deduped2>>
    /\ UNCHANGED <<feVars, psVars, mainVars, bkVars, gsVars>>

DeduplicateAgain ==
    /\ jb_pc = "deduped"
    /\ jb_deduped2' = _deduplicate_jobs(jb_deduped)
    /\ jb_pc' = "deduped2"
    /\ UNCHANGED <<jb_filters, jb_jobs, jb_filtered, jb_deduped>>
    /\ UNCHANGED <<feVars, psVars, mainVars, bkVars, gsVars>>

\* the successful attempt of search_jobs on parsed_jobs = jb_jobs: both steps
\* in one call, deduped_jobs being what is returned
SearchJobsCall ==
    /\ jb_pc = "start"
    /\ jb_filtered' = _filter_jobs(jb_jobs, jb_filters)
    /\ jb_deduped' = FilterThenDedup(jb_jobs, jb_filters)
    /\ jb_pc' = "deduped"
    /\ UNCHANGED <<jb_filters, jb_jobs, jb_deduped2>>
    /\ UNCHANGED <<feVars, psVars, mainVars, bkVars, gsVars>>

JobNext == FilterJobsCall \/ DeduplicateCall \/ DeduplicateAgain \/ SearchJobsCall

JobSpec == JobInit /\ [][JobNext]_vars

\* the rules of the job filter, each stated on its own
C4_RemoteFound(job) ==
    \/ Contains(Lower(job.location), RemoteWord)
    \/ Contains(Lower(job.title), RemoteWord)
    \/ Contains(Lower(job.description), RemoteWord)

C4_LocationAllowed(job) ==
    \E l \in Range(jb_filters.locations) : Contains(Lower(job.location), Lower(l))

C4_OtherRulesPass(job) ==
    /\ \A k \in Range(jb_filters.company_exclude_keywords) :
           ~Contains(Lower(job.company), Lower(k))
    /\ \/ jb_filters.include_keywords = <<>>
       \/ \E k \in Range(jb_filters.include_keywords) :
              Contains(Lower(job.title) \o Lower(job.description), Lower(k))
    /\ \A k \in Range(jb_filters.exclude_seniority_levels) :
           ~Contains(Lower(job.title), Lower(k))

\* C4 as stated: with remote_only set, a job that passed the remote check is
\* not rejected for its location when the company-exclude, include-keyword
\* and seniority rules pass (the allowed-locations check is skipped for it).
C4_LocationSkippedForRemote ==
    jb_pc = "filtered" =>
        \A job \in Range(jb_jobs) :
            ( /\ jb_filters.remote_only
              /\ C4_RemoteFound(job)
              /\ C4_OtherRulesPass(job) )
            => job \in Range(jb_filtered)

\* C4 as amended: the allowed-locations check is applied whether or not the
\* remote check passed. A job is kept if and only if the company-exclude,
\* include-keyword and seniority rules pass, the remote rule passes
\* (remote_only unset, or 'remote' found), and the location rule passes
\* (no allowed locations, or one of them occurs in the location).
C4_LocationAlwaysChecked ==
    jb_pc = "filtered" =>
        \A job \in Range(jb_jobs) :
            job \in Range(jb_filtered) <=>
                /\ C4_OtherRulesPass(job)
                /\ jb_filters.remote_only => C4_RemoteFound(job)
                /\ jb_filters.locations = <<>> \/ C4_LocationAllowed(job)

C4_Witness ==
    /\ jb_pc = "filtered"
    /\ jb_filters.remote_only
    /\ jb_filters.locations # <<>>
    /\ \E job \in Range(jb_jobs) :
          /\ C4_RemoteFound(job)
          /\ C4_OtherRulesPass(job)
          /\ ~C4_LocationAllowed(job)
          /\ job \notin Range(jb_filtered)

C5_Key(job) == <<Lower(job.title), Lower(job.company)>>

C5_FirstPositions(x) ==
    {i \in DOMAIN x : \A k \in 1..(i - 1) : C5_Key(x[k]) # C5_Key(x[i])}

\* C5: _deduplicate_jobs returns the subsequence of the first job of each
\* DedupKey (lower-cased title, lower-cased company), in input order and
\* unchanged; no two retained jobs share a DedupKey; dedup(dedup(x)) = dedup(x).
C5_DedupFirstSeenStable ==
    /\ jb_pc \in {"deduped", "deduped2"} =>
          /\ jb_deduped = PickAt(jb_filtered, C5_FirstPositions(jb_filtered), 1)
          /\ \A i, j \in DOMAIN jb_deduped :
                 C5_Key(jb_deduped[i]) = C5_Key(jb_deduped[j]) => i = j
    /\ jb_pc = "deduped2" => jb_deduped2 = jb_deduped

C5_Witness ==
    /\ jb_pc = "deduped2"
    /\ Len(jb_filtered) = 3
    /\ Len(jb_deduped) = 2
    /\ C5_Key(jb_filtered[1]) = C5_Key(jb_filtered[2])
    /\ jb_filtered[1] # jb_filtered[2]
    /\ jb_deduped2 = <<jb_filtered[1], jb_filtered[3]>>


\* C11: what a successful search_jobs returns is the filter-passing jobs
\* without their later same-key repeats: every record of the result passes
\* the filter, and a parsed job that passes the filter is in the result
\* unless an earlier filter-passing job of the response has its DedupKey; a
\* same-key job the filter rejected suppresses nothing
C11_FilterBeforeDedup ==
    jb_pc = "deduped" =>
        /\ \A k \in DOMAIN jb_deduped : _is_valid_job(jb_deduped[k], jb_filters)
        /\ \A i \in DOMAIN jb_jobs :
              _is_valid_job(jb_jobs[i], jb_filters) =>
                  \/ \E j \in 1..(i - 1) :
                        /\ _is_valid_job(jb_jobs[j], jb_filters)
                        /\ C5_Key(jb_jobs[j]) = C5_Key(jb_jobs[i])
                  \/ \E k \in DOMAIN jb_deduped : jb_deduped[k] = jb_jobs[i]

\* a returned job that follows a rejected job of the same key
C11_Witness ==
    /\ jb_pc = "deduped"
    /\ \E i \in DOMAIN jb_jobs : \E j \in 1..(i - 1) :
          /\ ~_is_valid_job(jb_jobs[j], jb_filters)
          /\ _is_valid_job(jb_jobs[i], jb_filters)
          /\ C5_Key(jb_jobs[j]) = C5_Key(jb_jobs[i])
          /\ \E k \in DOMAIN jb_deduped : jb_deduped[k] = jb_jobs[i]

(***************************************************************************)
(* parser.py: WebParser.extract_emails_from_url                            *)
(***************************************************************************)
LetterChars == Range(UpperLetters) \cup Range(LowerLetters)

\* [a-zA-Z0-9._%+-]
LocalPartChars == LetterChars \cup Digits \cup {".", "_", "%", "+", "-"}

\* [a-zA-Z0-9.-]
DomainChars == LetterChars \cup Digits \cup {".", "-"}

\* the last position of the longest run of characters of cs that starts at i
\* (i - 1 when s[i] is not in cs)
RunEnd(s, i, cs) ==
    CHOOSE j \in (i - 1)..Len(s) :
        /\ \A k \in i..j : s[k] \in cs
        /\ j = Len(s) \/ s[j + 1] \notin cs

\* email_regex matched at position i: the last position of the match, 0 for
\* no match. The local part runs up to an @; the domain run is taken greedily
\* and given back up to its last period that two letters follow.
RegexMatchEnd(s, i) ==
    LET at == RunEnd(s, i, LocalPartChars) + 1
    IN IF at = i \/ at > Len(s) \/ s[at] # "@" THEN 0
       ELSE LET r    == RunEnd(s, at + 1, DomainChars)
                dots == {d \in (at + 2)..(r - 2) :
                            /\ s[d] = "."
                            /\ s[d + 1] \in LetterChars
                            /\ s[d + 2] \in LetterChars}
            IN IF dots = {} THEN 0
               ELSE LET d == CHOOSE x \in dots : \A y \in dots : y <= x
                    IN RunEnd(s, d + 1, LetterChars)

\* re.findall(email_regex, s) scanning from position i: the matches, leftmost
\* first and not overlapping
RECURSIVE FindAllFrom(_, _)
FindAllFrom(s, i) ==
    IF i > Len(s) THEN {}
    ELSE LET e == RegexMatchEnd(s, i)
         IN IF e = 0 THEN FindAllFrom(s, i + 1)
            ELSE {SubSeq(s, i, e)} \cup FindAllFrom(s, e + 1)

\* set(re.findall(self.email_regex, text))
FindAllEmails(text) == FindAllFrom(text, 1)

\* soup.get_text(): the text of every node, anchors included, in document order
RECURSIVE get_text(_)
get_text(doc) ==
    IF doc = <<>> THEN <<>> ELSE Head(doc).text \o get_text(Tail(doc))

\* soup.find_all('a', href=True)
AnchorsWithHref(doc) ==
    SelectSeq(doc, LAMBDA n : n.kind = "a" /\ "href" \in DOMAIN n)

\* href.replace('mailto:', '').split('?')[0]
MailtoTarget(href) == SplitFirst(RemoveAll(href, MailtoScheme), "?")

\* the addresses of the mailto: links of a page
MailtoEmails(doc) ==
    {MailtoTarget(a.href) : a \in {x \in Range(AnchorsWithHref(doc)) :
                                      StartsWith(x.href, MailtoScheme)}}

\* the candidates of the primary page: text matches and mailto links
PrimaryPageEmails(doc) == FindAllEmails(get_text(doc)) \cup MailtoEmails(doc)

\* the candidates taken from a secondary page: text matches
SecondaryPageEmails(doc) == FindAllEmails(get_text(doc))

\* urljoin(base, href) for the references met here: an href with a scheme is
\* kept, /path is put after the base's scheme and host, another relative path
\* replaces what follows the base's last slash
HasScheme(href) ==
    \E i \in 2..Len(href) :
        /\ href[i] = ":"
        /\ \A k \in 1..(i - 1) : href[k] \in LetterChars

SchemeEnd(base) == CHOOSE i \in DOMAIN base : OccursAt(base, <<":", "/", "/">>, i)

\* scheme://host of an absolute URL
UrlOrigin(base) ==
    LET h == SchemeEnd(base) + 3
    IN SubSeq(base, 1, RunEnd(base, h, DomainChars \cup {":"}))

\* the base up to and with the last slash of its path
UrlDirectory(base) ==
    LET o == UrlOrigin(base)
        slashes == {i \in (Len(o) + 1)..Len(base) : base[i] = "/"}
    IN IF slashes = {} THEN o \o <<"/">>
       ELSE SubSeq(base, 1, CHOOSE x \in slashes : \A y \in slashes : y <= x)

urljoin(base, href) ==
    IF href = <<>> THEN base
    ELSE IF HasScheme(href) THEN href
    ELSE IF Head(href) = "/" THEN UrlOrigin(base) \o href
    ELSE UrlDirectory(base) \o href

\* the anchor text names a contact, careers or about page
IsContactAnchor(a) ==
    LET text_content == Lower(a.text)
    IN \/ Contains(text_content, ContactWord)
       \/ Contains(text_content, CareerWord)
       \/ Contains(text_content, AboutWord)

\* the loop that builds contact_links, from a given state of the list
RECURSIVE ContactLinksLoop(_, _, _)
ContactLinksLoop(url, anchors, contact_links) ==
    IF anchors = <<>> THEN contact_links
    ELSE LET a == Head(anchors)
             full_link == urljoin(url, a.href)
         IN IF /\ IsContactAnchor(a)
               /\ full_link \notin Range(contact_links)
               /\ StartsWith(full_link, HttpPrefix)
              THEN ContactLinksLoop(url, Tail(anchors), Append(contact_links, full_link))
              ELSE ContactLinksLoop(url, Tail(anchors), contact_links)

ContactLinks(url, doc) == ContactLinksLoop(url, AnchorsWithHref(doc), <<>>)

\* contact_links[:2]
MaxSecondaryLinks == 2

LinksToFollow_All(contact_links) == contact_links

LinksToFollow(contact_links) ==
    SubSeq(contact_links, 1,
           IF Len(contact_links) < MaxSecondaryLinks
             THEN Len(contact_links) ELSE MaxSecondaryLinks)


(***************************************************************************)
(* Pages: a document is the sequence of its text and anchor nodes          *)
(***************************************************************************)
DocTextEmail ==
    <<[kind |-> "text", text |-> <<"m","a","i","l"," ","j","o","b","s","@","f","o","o",".","i","o"," ">>],
       [kind |-> "a", href |-> <<"/","x">>, text |-> <<"H","o","m","e">>]>>

DocMailtoOnly ==
    <<[kind |-> "text", text |-> <<"A","p","p","l","y"," ">>],
       [kind |-> "a", href |-> <<"m","a","i","l","t","o",":","j","o","b","s","@","f","o","o",".","i","o","?","s","u","b","j","e","c","t","=","h","i">>, text |-> <<"E","m","a","i","l"," ","u","s">>]>>

DocEmailAndContact ==
    <<[kind |-> "a", href |-> <<"/","c","o","n","t","a","c","t">>, text |-> <<"C","o","n","t","a","c","t">>],
       [kind |-> "text", text |-> <<" ","o","r"," ","h","r","@","a","c","m","e",".","c","o","m">>]>>

DocThreeLinks ==
    <<[kind |-> "text", text |-> <<"J","o","b","s"," ">>],
       [kind |-> "a", href |-> <<"/","c","o","n","t","a","c","t">>, text |-> <<"C","o","n","t","a","c","t"," ","U","s">>],
       [kind |-> "a", href |-> <<"a","b","o","u","t">>, text |-> <<"A","B","O","U","T">>],
       [kind |-> "a", href |-> <<"h","t","t","p","s",":","/","/","b",".","i","o","/","c">>, text |-> <<"C","a","r","e","e","r","s">>],
       [kind |-> "a", href |-> <<"/","x">>, text |-> <<"H","o","m","e">>]>>

DocDupAndFtp ==
    <<[kind |-> "a", href |-> <<"/","c","o","n","t","a","c","t">>, text |-> <<"c","o","n","t","a","c","t">>],
       [kind |-> "a", href |-> <<"/","c","o","n","t","a","c","t">>, text |-> <<"C","o","n","t","a","c","t"," ","a","g","a","i","n">>],
       [kind |-> "a", href |-> <<"f","t","p",":","/","/","f",".","i","o","/","a">>, text |-> <<"a","b","o","u","t">>],
       [kind |-> "a", text |-> <<"c","a","r","e","e","r","s">>],
       [kind |-> "a", href |-> <<"/","j","o","b","s">>, text |-> <<"O","u","r"," ","C","a","r","e","e","r","s">>]>>

DocNoContact ==
    <<[kind |-> "text", text |-> <<"H","e","l","l","o"," ">>],
       [kind |-> "a", href |-> <<"/","x">>, text |-> <<"H","o","m","e">>]>>

DocOneLink ==
    <<[kind |-> "a", href |-> <<"h","t","t","p","s",":","/","/","b",".","i","o","/","c">>, text |-> <<"A","b","o","u","t"," ","u","s">>]>>

SubTextEmail ==
    <<[kind |-> "text", text |-> <<"w","r","i","t","e"," ","h","r","@","a","c","m","e",".","c","o","m",".">>]>>

SubMailtoOnly ==
    <<[kind |-> "text", text |-> <<"C","o","n","t","a","c","t",":"," ">>],
       [kind |-> "a", href |-> <<"m","a","i","l","t","o",":","c","a","r","e","e","r","s","@","a","c","m","e",".","c","o","m">>, text |-> <<"E","m","a","i","l"," ","u","s">>]>>

SubNoEmail ==
    <<[kind |-> "text", text |-> <<"N","o","t","h","i","n","g"," ","h","e","r","e">>],
       [kind |-> "a", href |-> <<"/","c","o","n","t","a","c","t">>, text |-> <<"C","o","n","t","a","c","t">>]>>

(***************************************************************************)
(* extract_emails_from_url, one request at a time                          *)
(***************************************************************************)
\* what requests.get can give: a fault (timeout, connection error) or a
\* response with a status and a document
FaultResponse == [fault |-> TRUE, status |-> 0, doc |-> <<>>]

HttpResponse(status, doc) == [fault |-> FALSE, status |-> status, doc |-> doc]

PrimaryDocs ==
    { DocTextEmail, DocMailtoOnly, DocEmailAndContact, DocThreeLinks,
      DocDupAndFtp, DocNoContact, DocOneLink }

PrimaryResponses ==
    {FaultResponse, HttpResponse(404, DocTextEmail), HttpResponse(203, DocThreeLinks)}
        \cup {HttpResponse(200, d) : d \in PrimaryDocs}

SecondaryResponses ==
    {FaultResponse, HttpResponse(404, SubTextEmail), HttpResponse(203, SubTextEmail)}
        \cup {HttpResponse(200, d) : d \in {SubTextEmail, SubMailtoOnly, SubNoEmail}}

ParserUrls == {UrlA, UrlAJob, <<>>, NoneValue}

\* response.raise_for_status() raises for 4xx and 5xx
RaisesForStatus(resp) == resp.status >= 400

ParserInit ==
    /\ ps_url \in ParserUrls
    /\ ps_pc = "start"
    /\ ps_emails = {} /\ ps_links = <<>> /\ ps_k = 0
    /\ ps_fetched = <<>> /\ ps_result = <<>>
    /\ feIdle /\ jbIdle /\ mainIdle /\ bkIdle /\ gsIdle

\* if not url: return []
ReturnNoUrl ==
    /\ ps_pc = "start"
    /\ ~IsTruthy(ps_url)
    /\ ps_result' = <<>>
    /\ ps_pc' = "returned"
    /\ UNCHANGED <<ps_url, ps_emails, ps_links, ps_k, ps_fetched>>
    /\ UNCHANGED <<feVars, jbVars, mainVars, bkVars, gsVars>>

\* the primary request, the extraction from its page and, without a
\* candidate, the choice of the links to follow
FetchPrimary ==
    /\ ps_pc = "start"
    /\ IsTruthy(ps_url)
    /\ \E resp \in PrimaryResponses :
         /\ ps_fetched' = <<[url |-> ps_url, resp |-> resp]>>
         /\ IF resp.fault \/ RaisesForStatus(resp)
              THEN /\ ps_result' = <<>>
                   /\ ps_pc' = "returned"
                   /\ UNCHANGED <<ps_emails, ps_links, ps_k>>
              ELSE LET emails == PrimaryPageEmails(resp.doc)
                   IN /\ ps_emails' = emails
                      /\ ps_links' = IF emails = {}
                                       THEN LinksToFollow(ContactLinks(ps_url, resp.doc))
                                       ELSE <<>>
                      /\ ps_k' = 1
                      /\ ps_pc' = "follow"
                      /\ UNCHANGED ps_result
    /\ UNCHANGED ps_url
    /\ UNCHANGED <<feVars, jbVars, mainVars, bkVars, gsVars>>

\* one turn of `for link in contact_links[:2]`: a fault is caught and logged, a
\* status other than 200 is passed over
FetchSecondary ==
    /\ ps_pc = "follow"
    /\ ps_k <= Len(ps_links)
    /\ \E resp \in SecondaryResponses :
         /\ ps_fetched' = Append(ps_fetched, [url |-> ps_links[ps_k], resp |-> resp])
         /\ ps_emails' = IF ~resp.fault /\ resp.status = 200
                           THEN ps_emails \cup SecondaryPageEmails(resp.doc)
                           ELSE ps_emails
    /\ ps_k' = ps_k + 1
    /\ UNCHANGED <<ps_url, ps_pc, ps_links, ps_result>>
    /\ UNCHANGED <<feVars, jbVars, mainVars, bkVars, gsVars>>

\* return list(emails)
ReturnEmails ==
    /\ ps_pc = "follow"
    /\ ps_k > Len(ps_links)
    /\ ps_result' \in ListsOfSet(ps_emails)
    /\ ps_pc' = "returned"
    /\ UNCHANGED <<ps_url, ps_emails, ps_links, ps_k, ps_fetched>>
    /\ UNCHANGED <<feVars, jbVars, mainVars, bkVars, gsVars>>

ParserNext == ReturnNoUrl \/ FetchPrimary \/ FetchSecondary \/ ReturnEmails

ParserSpec == ParserInit /\ [][ParserNext]_vars

C9_PrimaryOk ==
    /\ ps_fetched # <<>>
    /\ ~ps_fetched[1].resp.fault
    /\ ps_fetched[1].resp.status < 400

C9_NoPrimaryCandidate ==
    C9_PrimaryOk /\ PrimaryPageEmails(ps_fetched[1].resp.doc) = {}

\* the URLs of the secondary requests made so far, in the order made
C9_SecondaryUrls == [i \in 1..(Len(ps_fetched) - 1) |-> ps_fetched[i + 1].url]

\* the first two distinct absolute http(s) targets, in document order, of the
\* hyperlinks whose anchor text holds contact, career or about in any case
C9_FirstTwoTargets ==
    LET doc == ps_fetched[1].resp.doc
        as  == AnchorsWithHref(doc)
        t   == [i \in DOMAIN as |-> urljoin(ps_url, as[i].href)]
        good == {i \in DOMAIN as :
                    /\ \E w \in {ContactWord, CareerWord, AboutWord} :
                           Contains(Lower(as[i].text), w)
                    /\ \/ StartsWith(t[i], <<"h","t","t","p",":","/","/">>)
                       \/ StartsWith(t[i], <<"h","t","t","p","s",":","/","/">>)}
        firsts == {i \in good : \A k \in good : k < i => t[k] # t[i]}
        all == PickAt(t, firsts, 1)
    IN SubSeq(all, 1, IF Len(all) < 2 THEN Len(all) ELSE 2)

\* C9: secondary pages are fetched only when the primary page yielded no
\* candidate from its text or its mailto links; the pages visited are then the
\* first two distinct absolute http(s) targets, in document order, of the
\* contact/career/about links, and no more; a fault on one secondary request
\* neither stops the other from being visited nor reaches the caller, who
\* still gets what the other pages' text held.
C9_BoundedSecondaryPass ==
    /\ Len(ps_fetched) > 1 => C9_NoPrimaryCandidate
    /\ ps_fetched # <<>> =>
          IsPrefixOf(C9_SecondaryUrls,
                     IF C9_NoPrimaryCandidate THEN C9_FirstTwoTargets ELSE <<>>)
    /\ (ps_pc = "returned" /\ C9_NoPrimaryCandidate) =>
          /\ C9_SecondaryUrls = C9_FirstTwoTargets
          /\ \A i \in 2..Len(ps_fetched) :
                (~ps_fetched[i].resp.fault /\ ps_fetched[i].resp.status = 200)
                => FindAllEmails(get_text(ps_fetched[i].resp.doc)) \subseteq Range(ps_result)

C9_Witness ==
    /\ ps_pc = "returned"
    /\ Len(ps_fetched) = 3
    /\ ps_fetched[1].resp.doc = DocDupAndFtp
    /\ ps_fetched[2].resp.fault
    /\ ps_fetched[3].resp = HttpResponse(200, SubTextEmail)
    /\ ps_result # <<>>

\* the candidates of a page by the two methods: e-mail pattern matches in the
\* visible text, and the targets of mailto: links without scheme and query
C10_PageCandidates(doc) ==
    FindAllEmails(get_text(doc))
        \cup {SplitFirst(From(n.href, Len(MailtoScheme) + 1), "?") :
                n \in {x \in Range(doc) :
                          /\ x.kind = "a" /\ "href" \in DOMAIN x
                          /\ StartsWith(x.href, MailtoScheme)}}

\* C10: the result is the union, over the primary page and every secondary
\* page fetched with success, of the candidates the two methods find on each
\* page; a secondary page whose only address is in a mailto: link contributes
\* that address.
C10_UnionOfBothMethods ==
    (ps_pc = "returned" /\ C9_PrimaryOk) =>
        Range(ps_result) =
            UNION { C10_PageCandidates(ps_fetched[i].resp.doc) :
                      i \in {k \in DOMAIN ps_fetched :
                                /\ ~ps_fetched[k].resp.fault
                                /\ (k > 1 => ps_fetched[k].resp.status = 200)} }

(***************************************************************************)
(* main.py: check_rate_limit and the configuration main reads              *)
(***************************************************************************)
MaxLimit == 2

MaxRetry == 2

MaxPriorToday == 1

\* delay_seconds of the search configuration
DelaySeconds == 2

Keywords == <<"python internship", "ml internship">>

MainFilters ==
    [ company_exclude_keywords |-> <<Agency>>,
      include_keywords         |-> <<>>,
      remote_only              |-> FALSE,
      locations                |-> <<>>,
      exclude_seniority_levels |-> <<Senior>> ]

\* config["safety"]["allowed_domains"], which main passes as allowed_prefixes
AllowedPrefixes == <<CareersAtPfx, HrAtPfx>>

Configs ==
    [ rate_limit_per_day : 1..MaxLimit,
      retry_attempts     : 0..MaxRetry,
      api_key            : BOOLEAN ]

\* a row of data/sent_log.csv; job is the index in all_jobs of the job the row
\* was written for (0 for the rows of earlier runs)
LedgerRow(today, job, company, role, to, status) ==
    [ today |-> today, job |-> job, company |-> company, role |-> role,
      email_sent_to |-> to, status |-> status ]

PastRow  == LedgerRow(FALSE, 0, Beta, Dev, JobsAtFooIo, "Sent")

PriorRow == LedgerRow(TRUE, 0, Beta, Dev, JobsAtFooIo, "Sent")

\* the file at the start of a run: absent, unreadable (no timestamp column,
\* or pandas cannot read it), or rows of earlier days and of earlier today
InitialLedgers ==
    { [status |-> "absent", rows |-> <<>>], [status |-> "unreadable", rows |-> <<>>] }
        \cup { [status |-> "ok", rows |-> <<PastRow>> \o [k \in 1..n |-> PriorRow]] :
                 n \in 0..MaxPriorToday }

\* len(df[df["timestamp"].dt.date == date.today()])
TodayCount(rows) == Cardinality({k \in DOMAIN rows : rows[k].today})

\* the comparison of line 39 with the bound included
check_rate_limit_Inclusive(log_file, limit) ==
    IF log_file.status = "absent" THEN TRUE
    ELSE IF log_file.status = "unreadable" THEN TRUE
    ELSE TodayCount(log_file.rows) <= limit

check_rate_limit(log_file, limit) ==
    IF log_file.status = "absent" THEN TRUE
    ELSE IF log_file.status = "unreadable" THEN TRUE
    ELSE TodayCount(log_file.rows) < limit

\* df.to_csv: appended to the file, which is created when absent
LedgerAppend_SentOnly(log_file, log_entry) ==
    IF log_entry.status = "Sent"
      THEN [ status |-> IF log_file.status = "absent" THEN "ok" ELSE log_file.status,
             rows   |-> Append(log_file.rows, log_entry) ]
      ELSE log_file

LedgerAppend(log_file, log_entry) ==
    [ status |-> IF log_file.status = "absent" THEN "ok" ELSE log_file.status,
      rows   |-> Append(log_file.rows, log_entry) ]

(***************************************************************************)
(* search_agent.py: search_jobs and _get_backoff_delay                     *)
(***************************************************************************)
RECURSIVE Pow2(_)
Pow2(n) == IF n <= 0 THEN 1 ELSE 2 * Pow2(n - 1)

\* Floats are kept with MantissaBits bits of mantissa (53 in CPython) and hold
\* integers below 2 ** MaxFloatExp (1024 in CPython). A float is written as
\* its number of ticks, a tick being 2 ** -MantissaBits seconds: the step of
\* random.random(), whose values are the multiples of a tick in [0, 1).
MantissaBits == 3

MaxFloatExp == 6

TicksPerSecond == Pow2(MantissaBits)

RECURSIVE BitLength(_)
BitLength(n) == IF n = 0 THEN 0 ELSE 1 + BitLength(n \div 2)

\* the float nearest to an exact number of ticks, ties to the even mantissa
RoundToFloat(ticks) ==
    IF BitLength(ticks) <= MantissaBits THEN ticks
    ELSE LET q == Pow2(BitLength(ticks) - MantissaBits)
             m == ticks \div q
             r == ticks % q
         IN IF 2 * r < q \/ (2 * r = q /\ m % 2 = 0) THEN m * q ELSE (m + 1) * q

\* random.uniform(0, 1.0) is 0 + (1.0 - 0) * random.random()
JitterDraws == 0..(TicksPerSecond - 1)

\* int + float converts the int, which raises OverflowError out of range
BackoffRaises(delay_seconds, k) == delay_seconds * Pow2(k - 1) >= Pow2(MaxFloatExp)

\* a ceiling on the delay, which the code does not have
_get_backoff_delay_Capped(delay_seconds, k, jitter) ==
    LET d == RoundToFloat(RoundToFloat(delay_seconds * Pow2(k - 1) * TicksPerSecond)
                            + jitter)
    IN IF d > 8 * TicksPerSecond THEN 8 * TicksPerSecond ELSE d

\* base = self.delay_seconds * (2 ** (attempt - 1))
\* return base + random.uniform(0, 1.0)
_get_backoff_delay(delay_seconds, k, jitter) ==
    RoundToFloat(RoundToFloat(delay_seconds * Pow2(k - 1) * TicksPerSecond) + jitter)

\* what the provider can answer: a jobs_results list (empty when the key is
\* absent), an 'error' field, or a fault thrown by the client
ProviderResults ==
    { <<RawAcmeDev, RawAgencyDev>>, <<RawAcmeDevAgain, RawBetaNoLink, RawBetaOps>>,
      <<>>, <<RawAcmeDev, RawNullTitle>> }

\* job.get(field, "").strip() raises on a field that is present and None
ParseRaises(job) ==
    \E f \in {"company_name", "title", "location", "description"} :
        f \in DOMAIN job /\ job[f] = NoneValue

\* lines 63-65: parse every record, filter, deduplicate
SearchPipeline(jobs_results) ==
    FilterThenDedup([k \in DOMAIN jobs_results |-> _parse_job(jobs_results[k])],
                    MainFilters)

\* `if attempt < self.retry_attempts` in the except clause
AttemptsRemain_Inclusive(k) == k <= config.retry_attempts

AttemptsRemain(k) == k < config.retry_attempts

\* where control is after `return []` of the except clause: back in main
AfterGiveUp_Raising == "crashed"

AfterGiveUp == "keywords"

(***************************************************************************)
(* _get_backoff_delay called on bounded inputs                             *)
(***************************************************************************)
MaxAttempt == 6

MaxDelaySeconds == 3

BackoffInit ==
    /\ bk_delay_seconds \in 1..MaxDelaySeconds
    /\ bk_attempt \in 1..MaxAttempt
    /\ bk_jitter \in JitterDraws
    /\ bk_pc = "start" /\ bk_delay = 0
    /\ feIdle /\ jbIdle /\ psIdle /\ mainIdle /\ gsIdle

BackoffCall ==
    /\ bk_pc = "start"
    /\ IF BackoffRaises(bk_delay_seconds, bk_attempt)
         THEN bk_pc' = "raised" /\ bk_delay' = bk_delay
         ELSE /\ bk_pc' = "returned"
              /\ bk_delay' = _get_backoff_delay(bk_delay_seconds, bk_attempt, bk_jitter)
    /\ UNCHANGED <<bk_delay_seconds, bk_attempt, bk_jitter>>
    /\ UNCHANGED <<feVars, jbVars, psVars, mainVars, gsVars>>

BackoffNext == BackoffCall

BackoffSpec == BackoffInit /\ [][BackoffNext]_vars

\* base * 2^(k-1), in ticks
C12_Base == bk_delay_seconds * Pow2(bk_attempt - 1) * TicksPerSecond

\* C12 as stated: for every attempt k >= 1 and positive base the call
\* returns a delay d with base * 2^(k-1) <= d < base * 2^(k-1) + 1.0
C12_DelayBelowNextSecond ==
    bk_pc # "start" =>
        /\ bk_pc = "returned"
        /\ C12_Base <= bk_delay
        /\ bk_delay < C12_Base + TicksPerSecond

\* C12: for every attempt k >= 1 and positive base with base * 2^(k-1) in
\* the range of a float, the delay d returned satisfies
\* base * 2^(k-1) <= d <= base * 2^(k-1) + 1.0, the upper end being reached
\* only by the rounding of the sum, and no ceiling is applied as k grows; out
\* of the range of a float the call raises
C12_DelayWithinClosedSecond ==
    /\ bk_pc = "returned" =>
          /\ C12_Base <= bk_delay
          /\ bk_delay <= C12_Base + TicksPerSecond
          /\ bk_delay = C12_Base + TicksPerSecond =>
                RoundToFloat(C12_Base) + bk_jitter < bk_delay
    /\ bk_pc = "raised" => C12_Base >= Pow2(MaxFloatExp) * TicksPerSecond

\* the sum was rounded up to a whole second above the base
C12_Witness ==
    /\ bk_pc = "returned"
    /\ bk_attempt > 1
    /\ bk_delay = C12_Base + TicksPerSecond

(***************************************************************************)
(* search_agent.py: search_google_general under functools.lru_cache        *)
(***************************************************************************)
\* the entries the cache holds at most (maxsize=128 in the code)
MaxCacheEntries == 2

MaxGeneralCalls == 3

\* the arguments (query, num_results) a call is keyed by
GeneralQueries == {<<"acme careers", 3>>, <<"acme careers", 5>>, <<"beta contact", 3>>}

\* what the provider answers to a request: the client throws, or a dict
\* with or without organic_results, whose entries may lack a link
GeneralResponses ==
    { [fault |-> TRUE, results |-> <<>>],
      [fault |-> FALSE, results |-> <<>>],
      [fault |-> FALSE,
       results |-> [organic_results |-> <<[link |-> UrlA], [title |-> Dev]>>]],
      [fault |-> FALSE,
       results |-> [organic_results |-> <<[link |-> UrlB], [link |-> UrlA]>>]] }

\* links = [res.get("link") for res in organic_results if res.get("link")]
RECURSIVE LinksOf(_)
LinksOf(organic_results) ==
    IF organic_results = <<>> THEN <<>>
    ELSE LET link == Get(Head(organic_results), "link", NoneValue)
         IN (IF IsTruthy(link) THEN <<link>> ELSE <<>>)
                \o LinksOf(Tail(organic_results))

\* the body of search_google_general, which runs when the cache has no entry
GeneralSearchBody(api_key, response) ==
    IF ~api_key THEN <<>>
    ELSE IF response.fault THEN <<>>
    ELSE LinksOf(Get(response.results, "organic_results", <<>>))

CacheKeys(cache) == {cache[k].key : k \in DOMAIN cache}

CacheValue(cache, key) ==
    LET k == CHOOSE k \in DOMAIN cache : cache[k].key = key IN cache[k].value

\* a hit makes the entry the most recently used
CacheTouch(cache, key) ==
    LET k == CHOOSE k \in DOMAIN cache : cache[k].key = key
    IN Append([j \in 1..(Len(cache) - 1) |->
                  IF j < k THEN cache[j] ELSE cache[j + 1]], cache[k])

\* a miss stores the result, whatever it is, and drops the least recently
\* used entry of a full cache
CacheStore(cache, key, value) ==
    LET grown == Append(cache, [key |-> key, value |-> value])
    IN IF Len(grown) > MaxCacheEntries THEN Tail(grown) ELSE grown

CacheInit ==
    /\ gs_api_key \in BOOLEAN
    /\ gs_cache = <<>> /\ gs_calls = 0 /\ gs_requests = 0 /\ gs_last = <<>>
    /\ feIdle /\ jbIdle /\ psIdle /\ mainIdle /\ bkIdle

\* a call whose arguments are in the cache: the stored list is returned and
\* the body does not run; response is what the provider would answer now
CachedCall ==
    /\ gs_calls < MaxGeneralCalls
    /\ \E key \in GeneralQueries, response \in GeneralResponses :
         /\ key \in CacheKeys(gs_cache)
         /\ gs_last' = [ key      |-> key,
                         hit      |-> TRUE,
                         returned |-> CacheValue(gs_cache, key),
                         uncached |-> GeneralSearchBody(gs_api_key, response),
                         faulted  |-> response.fault ]
         /\ gs_cache' = CacheTouch(gs_cache, key)
    /\ gs_calls' = gs_calls + 1
    /\ UNCHANGED <<gs_api_key, gs_requests>>
    /\ UNCHANGED <<feVars, jbVars, psVars, mainVars, bkVars>>

\* a call whose arguments are not in the cache: the body runs and what it
\* returns is stored, the [] of the except clause included
UncachedCall ==
    /\ gs_calls < MaxGeneralCalls
    /\ \E key \in GeneralQueries, response \in GeneralResponses :
         /\ key \notin CacheKeys(gs_cache)
         /\ LET links == GeneralSearchBody(gs_api_key, response)
            IN /\ gs_last' = [ key |-> key, hit |-> FALSE, returned |-> links,
                               uncached |-> links, faulted |-> response.fault ]
               /\ gs_cache' = CacheStore(gs_cache, key, links)
    /\ gs_calls' = gs_calls + 1
    /\ gs_requests' = IF gs_api_key THEN gs_requests + 1 ELSE gs_requests
    /\ UNCHANGED gs_api_key
    /\ UNCHANGED <<feVars, jbVars, psVars, mainVars, bkVars>>

CacheNext == CachedCall \/ UncachedCall

CacheSpec == CacheInit /\ [][CacheNext]_vars

\* C13: the cache is advisory: every call of search_google_general returns
\* the list of links an uncached lookup made at that moment would return,
\* also when the provider faulted on an earlier call with the same
\* (query, num_results) and answers now
C13_CacheIsAdvisory ==
    gs_last # <<>> => gs_last.returned = gs_last.uncached

(***************************************************************************)
(* main: the rate check at start and the keyword loop with search_jobs     *)
(***************************************************************************)
searchVars == <<attempt, calls, sleeps, sj_faults, sj_returned, sj_result>>

jobVars == <<job_idx, emails_sent_session, target_email, job_outcome>>

Init ==
    /\ config \in Configs
    /\ ledger \in InitialLedgers
    /\ pc = "start" /\ stop = "none"
    /\ kw_idx = 0 /\ all_jobs = <<>>
    /\ attempt = 0 /\ calls = <<>> /\ sleeps = <<>> /\ sj_faults = <<>>
    /\ sj_returned = FALSE /\ sj_result = <<>>
    /\ job_idx = 0 /\ emails_sent_session = 0 /\ target_email = <<>>
    /\ job_outcome = <<>>
    /\ feIdle /\ jbIdle /\ psIdle /\ bkIdle /\ gsIdle

\* lines 68-73: the daily limit is checked before anything is searched
InitialRateCheck ==
    /\ pc = "start"
    /\ IF check_rate_limit(ledger, config.rate_limit_per_day)
         THEN pc' = "keywords" /\ kw_idx' = 1 /\ stop' = stop
         ELSE pc' = "done" /\ kw_idx' = kw_idx /\ stop' = "limit_at_start"
    /\ UNCHANGED <<config, ledger, all_jobs, searchVars, jobVars>>
    /\ UNCHANGED <<feVars, jbVars, psVars, bkVars, gsVars>>

\* search_jobs is entered for the next keyword; without an API key it
\* returns [] at once
BeginSearch ==
    /\ pc = "keywords"
    /\ kw_idx <= Len(Keywords)
    /\ calls' = <<>> /\ sleeps' = <<>> /\ sj_faults' = <<>>
    /\ IF ~config.api_key
         THEN /\ sj_returned' = TRUE /\ sj_result' = <<>>
              /\ attempt' = 0
              /\ kw_idx' = kw_idx + 1
              /\ pc' = "keywords"
         ELSE /\ sj_returned' = FALSE /\ sj_result' = <<>>
              /\ attempt' = 1
              /\ kw_idx' = kw_idx
              /\ pc' = "attempt"
    /\ UNCHANGED <<config, ledger, stop, all_jobs, jobVars>>
    /\ UNCHANGED <<feVars, jbVars, psVars, bkVars, gsVars>>

\* an attempt whose response has no 'error' field and parses: the jobs are
\* returned and main extends all_jobs with them
AttemptSucceeds ==
    /\ pc = "attempt"
    /\ attempt <= config.retry_attempts
    /\ \E jobs_results \in ProviderResults :
         /\ \A k \in DOMAIN jobs_results : ~ParseRaises(jobs_results[k])
         /\ sj_result' = SearchPipeline(jobs_results)
    /\ calls' = Append(calls, attempt)
    /\ sj_returned' = TRUE
    /\ all_jobs' = all_jobs \o sj_result'
    /\ kw_idx' = kw_idx + 1
    /\ pc' = "keywords"
    /\ UNCHANGED <<config, ledger, stop, attempt, sleeps, sj_faults, jobVars>>
    /\ UNCHANGED <<feVars, jbVars, psVars, bkVars, gsVars>>

\* an attempt that ends in the except clause: the response has an 'error'
\* field, the client throws, or a record cannot be parsed
AttemptFails ==
    /\ pc = "attempt"
    /\ attempt <= config.retry_attempts
    /\ \E fault \in {"error", "throw", "parse"} :
         /\ fault = "parse" =>
               \E jobs_results \in ProviderResults :
                   \E k \in DOMAIN jobs_results : ParseRaises(jobs_results[k])
         /\ sj_faults' = Append(sj_faults, fault)
    /\ calls' = Append(calls, attempt)
    /\ IF AttemptsRemain(attempt)
         THEN /\ pc' = "sleep"
              /\ UNCHANGED <<sj_returned, sj_result, kw_idx>>
         ELSE /\ sj_returned' = TRUE /\ sj_result' = <<>>
              /\ kw_idx' = kw_idx + 1
              /\ pc' = AfterGiveUp
    /\ UNCHANGED <<config, ledger, stop, all_jobs, attempt, sleeps, jobVars>>
    /\ UNCHANGED <<feVars, jbVars, psVars, bkVars, gsVars>>

\* time.sleep(self._get_backoff_delay(attempt)), then the next turn of the loop
BackoffSleep ==
    /\ pc = "sleep"
    /\ \E jitter \in {0, TicksPerSecond - 1} :
         sleeps' = Append(sleeps, _get_backoff_delay(DelaySeconds, attempt, jitter))
    /\ attempt' = attempt + 1
    /\ pc' = "attempt"
    /\ UNCHANGED <<config, ledger, stop, kw_idx, all_jobs, calls, sj_faults,
                   sj_returned, sj_result, jobVars>>
    /\ UNCHANGED <<feVars, jbVars, psVars, bkVars, gsVars>>

\* line 84: the for loop ran out of attempts without returning
ReturnAfterLoop ==
    /\ pc = "attempt"
    /\ attempt > config.retry_attempts
    /\ sj_returned' = TRUE /\ sj_result' = <<>>
    /\ kw_idx' = kw_idx + 1
    /\ pc' = "keywords"
    /\ UNCHANGED <<config, ledger, stop, all_jobs, attempt, calls, sleeps,
                   sj_faults, jobVars>>
    /\ UNCHANGED <<feVars, jbVars, psVars, bkVars, gsVars>>

\* lines 81-97: every keyword was searched; the job loop starts
EndOfKeywords ==
    /\ pc = "keywords"
    /\ kw_idx > Len(Keywords)
    /\ attempt' = 0 /\ calls' = <<>> /\ sleeps' = <<>> /\ sj_faults' = <<>>
    /\ sj_returned' = FALSE /\ sj_result' = <<>>
    /\ job_idx' = 1
    /\ emails_sent_session' = 0
    /\ pc' = "loop"
    /\ UNCHANGED <<config, ledger, stop, kw_idx, all_jobs, target_email, job_outcome>>
    /\ UNCHANGED <<feVars, jbVars, psVars, bkVars, gsVars>>

(***************************************************************************)
(* main: the job loop                                                      *)
(***************************************************************************)
\* what extract_emails_from_url can return for a job's link: [] after a
\* fault or for a page without address, or the list of the addresses found
ExtractOutcomes ==
    {<<>>, <<BobAtAcme>>, <<HRAtAcmeCaps, BobAtAcme>>, <<CareersAtAcme, HRAtAcmeCaps>>}

\* job.get("link") or job.get("apply_link")
JobLink(job) == IF IsTruthy(job.link) THEN job.link ELSE job.apply_link

\* `continue` after an empty email_body: the loop goes on with the next job
AfterNoBody_Break == "done"

AfterNoBody == "loop"

\* lines 99-103: the loop ends after the last job, or breaks on the limit,
\* which is checked against daily_limit - emails_sent_session
LoopRateCheck ==
    /\ pc = "loop"
    /\ IF job_idx > Len(all_jobs)
         THEN pc' = "done" /\ stop' = "completed"
         ELSE IF ~check_rate_limit(ledger,
                                   config.rate_limit_per_day - emails_sent_session)
           THEN pc' = "done" /\ stop' = "limit"
           ELSE pc' = "job" /\ stop' = stop
    /\ UNCHANGED <<config, ledger, kw_idx, all_jobs, searchVars, jobVars>>
    /\ UNCHANGED <<feVars, jbVars, psVars, bkVars, gsVars>>

\* lines 105-124: a job without link is skipped; otherwise the page is
\* scraped, the addresses filtered, and a job without valid address skipped
FindContactEmail ==
    /\ pc = "job"
    /\ LET job == all_jobs[job_idx]
       IN IF ~IsTruthy(JobLink(job))
            THEN /\ job_outcome' = Append(job_outcome, "no_link")
                 /\ job_idx' = job_idx + 1
                 /\ pc' = "loop"
                 /\ UNCHANGED target_email
            ELSE \E emails \in ExtractOutcomes :
                   \E valid_emails \in filter_emails(emails, AllowedPrefixes, NoneValue) :
                      IF valid_emails = <<>>
                        THEN /\ job_outcome' = Append(job_outcome, "no_email")
                             /\ job_idx' = job_idx + 1
                             /\ pc' = "loop"
                             /\ UNCHANGED target_email
                        ELSE /\ target_email' = valid_emails[1]
                             /\ pc' = "generate"
                             /\ UNCHANGED <<job_idx, job_outcome>>
    /\ UNCHANGED <<config, ledger, stop, kw_idx, all_jobs, searchVars,
                   emails_sent_session>>
    /\ UNCHANGED <<feVars, jbVars, psVars, bkVars, gsVars>>

\* lines 126-135: generate_email returns the text, or "" after a fault
GenerateEmail ==
    /\ pc = "generate"
    /\ \E email_body \in {<<>>, <<"S","u","b","j","e","c","t",":"," ","H","i">>} :
         IF email_body = <<>>
           THEN /\ job_outcome' = Append(job_outcome, "no_body")
                /\ job_idx' = job_idx + 1
                /\ pc' = AfterNoBody
                /\ stop' = IF AfterNoBody = "done" THEN "completed" ELSE stop
           ELSE /\ pc' = "send"
                /\ UNCHANGED <<job_idx, job_outcome, stop>>
    /\ UNCHANGED <<config, ledger, kw_idx, all_jobs, searchVars,
                   emails_sent_session, target_email>>
    /\ UNCHANGED <<feVars, jbVars, psVars, bkVars, gsVars>>

\* lines 151-177: send_email returns True or False; the row is appended to
\* the ledger in both cases, and a success counted in emails_sent_session
SendEmail ==
    /\ pc = "send"
    /\ \E success \in BOOLEAN :
         LET job == all_jobs[job_idx]
             log_entry == LedgerRow(TRUE, job_idx, job.company, job.title, target_email,
                                    IF success THEN "Sent" ELSE "Failed")
         IN /\ ledger' = LedgerAppend(ledger, log_entry)
            /\ emails_sent_session' =
                   IF success THEN emails_sent_session + 1 ELSE emails_sent_session
            /\ job_outcome' = Append(job_outcome, IF success THEN "sent" ELSE "failed")
    /\ job_idx' = job_idx + 1
    /\ pc' = "loop"
    /\ UNCHANGED <<config, stop, kw_idx, all_jobs, searchVars, target_email>>
    /\ UNCHANGED <<feVars, jbVars, psVars, bkVars, gsVars>>

Next ==
    \/ InitialRateCheck
    \/ BeginSearch
    \/ AttemptSucceeds
    \/ AttemptFails
    \/ BackoffSleep
    \/ ReturnAfterLoop
    \/ EndOfKeywords
    \/ LoopRateCheck
    \/ FindContactEmail
    \/ GenerateEmail
    \/ SendEmail

Spec == Init /\ [][Next]_vars

\* main runs to its end: each step is taken once it can be (every external
\* call returns or times out)
FairSpec == Spec /\ WF_vars(Next)

(***************************************************************************)
(* Properties of search_jobs within main                                   *)
(***************************************************************************)
\* the call of search_jobs in progress or just returned failed on every
\* attempt it made
AllAttemptsFailed == calls # <<>> /\ Len(sj_faults) = Len(calls)

\* C1: with retry_attempts = N >= 1 and a provider that fails on every
\* attempt (an 'error' field or a thrown fault), search_jobs returns the empty
\* list, no fault reaches main, and main goes on to the next keyword with no
\* job added for that query.
C1_ExhaustedRetriesGiveNoJobs ==
    [][ ( /\ pc = "attempt"
          /\ config.retry_attempts >= 1
          /\ pc' # "attempt" /\ pc' # "sleep"
          /\ Len(sj_faults') = Len(calls') )
        => ( /\ sj_returned' /\ sj_result' = <<>>
             /\ Len(calls') = config.retry_attempts
             /\ all_jobs' = all_jobs
             /\ pc' = "keywords"
             /\ kw_idx' = kw_idx + 1 ) ]_vars

C1_Witness ==
    /\ pc = "keywords"
    /\ config.retry_attempts = 2
    /\ sj_returned
    /\ sj_faults = <<"error", "throw">>
    /\ sj_result = <<>>
    /\ kw_idx = 2
    /\ all_jobs = <<>>

\* C6: in one call of search_jobs with retry_attempts = N the provider is
\* called at most N times, on attempts 1, 2, ... in order; nothing is called
\* or slept after the first successful attempt; a sleep of delay(k) follows
\* failed attempt k exactly when k < N, so a call that fails throughout makes
\* N provider calls and N - 1 sleeps.
C6_RetrySchedule ==
    pc \in {"attempt", "sleep", "keywords"} =>
        LET N == config.retry_attempts
            failed == Len(sj_faults)
        IN /\ Len(calls) <= N
           /\ \A k \in DOMAIN calls : calls[k] = k
           /\ failed <= Len(calls) /\ Len(calls) <= failed + 1
           /\ Len(calls) = failed + 1 => sj_returned
           /\ sj_returned => pc = "keywords"
           /\ \A k \in DOMAIN sleeps :
                 \E jitter \in JitterDraws :
                     sleeps[k] = _get_backoff_delay(DelaySeconds, k, jitter)
           /\ pc # "sleep" =>
                 Len(sleeps) = Cardinality({k \in 1..failed : k < N})
           /\ pc = "sleep" =>
                 /\ failed < N
                 /\ Len(sleeps) = failed - 1
           /\ (sj_returned /\ AllAttemptsFailed) =>
                 Len(calls) = N /\ Len(sleeps) = N - 1

C6_Witness ==
    /\ pc = "keywords"
    /\ config.retry_attempts = 2
    /\ sj_returned
    /\ calls = <<1, 2>>
    /\ Len(sj_faults) = 2
    /\ Len(sleeps) = 1

(***************************************************************************)
(* Properties of the job loop                                              *)
(***************************************************************************)
\* C2: before each job the ledger is read again and the job is processed if
\* and only if the number of today's rows is strictly below
\* rate_limit_per_day, whatever number of e-mails this run has sent.
C2_ProcessedIffBelowCap ==
    ledger.status # "unreadable" =>
        /\ pc = "job" => TodayCount(ledger.rows) < config.rate_limit_per_day
        /\ stop = "limit" => ~(TodayCount(ledger.rows) < config.rate_limit_per_day)

RowsOfJob(j) == {k \in DOMAIN ledger.rows : ledger.rows[k].job = j}

\* C7 as stated: a job whose contact extraction gave no usable e-mail, or
\* whose send failed, has a ledger row with a failure status.
C7_EveryFailureInLedger ==
    \A j \in DOMAIN job_outcome :
        job_outcome[j] \in {"no_email", "failed"} =>
            \E k \in RowsOfJob(j) : ledger.rows[k].status = "Failed"

\* C7 as amended: a job whose send failed has one ledger row, of today and
\* with status Failed; a job for which no usable e-mail was obtained has no
\* ledger row (it is only logged); after either the loop is at the next job,
\* and the run ends only at the end of the job list or at a rate-limit check.
C7_SendFailureInLedger ==
    /\ \A j \in DOMAIN job_outcome :
          /\ job_outcome[j] = "failed" =>
                /\ Cardinality(RowsOfJob(j)) = 1
                /\ \A k \in RowsOfJob(j) :
                      ledger.rows[k].status = "Failed" /\ ledger.rows[k].today
          /\ job_outcome[j] = "no_email" => RowsOfJob(j) = {}
    /\ pc \in {"loop", "job", "generate", "send"} => job_idx = Len(job_outcome) + 1
    /\ (pc = "done" /\ job_outcome # <<>>) => stop \in {"limit", "completed"}

C7_Witness ==
    /\ Len(job_outcome) >= 3
    /\ job_outcome[1] = "failed"
    /\ job_outcome[2] = "no_email"
    /\ \E k \in RowsOfJob(1) : ledger.rows[k].status = "Failed"
    /\ RowsOfJob(2) = {}

\* C8: once main has started, whatever the provider, the page fetch, the
\* generator and the mailer do, the run reaches its end ('Workflow completed'
\* or a rate-limit stop); and a run that was not stopped by the rate limit has
\* considered every job, whatever happened to the jobs before it.
C8_RunCompletes ==
    /\ <>(pc = "done")
    /\ [](pc = "done" =>
            \/ stop \in {"limit_at_start", "limit"}
            \/ stop = "completed" /\ Len(job_outcome) = Len(all_jobs))

C8_Witness ==
    /\ pc = "done" /\ stop = "completed"
    /\ Len(all_jobs) >= 4
    /\ job_outcome[1] = "no_body"
    /\ job_outcome[2] = "failed"
    /\ \E j \in DOMAIN job_outcome : j > 2 /\ job_outcome[j] = "sent"


(***************************************************************************)
(* Properties of the whole run                                             *)
(***************************************************************************)
\* today's rows that were in the ledger when the run started
C14_TodayAtStart ==
    Cardinality({k \in DOMAIN ledger.rows :
                    ledger.rows[k].today /\ ledger.rows[k].job = 0})

\* C14: with a ledger that can be read and a count of today's rows at or
\* below rate_limit_per_day at the start of the run, the count never exceeds
\* rate_limit_per_day, and a job is worked on (its page fetched, its e-mail
\* generated, sent and logged) only while the count is below it
C14_DailyCapNeverExceeded ==
    (ledger.status # "unreadable" /\ C14_TodayAtStart <= config.rate_limit_per_day) =>
        /\ TodayCount(ledger.rows) <= config.rate_limit_per_day
        /\ pc \in {"job", "generate", "send"} =>
              TodayCount(ledger.rows) < config.rate_limit_per_day

\* the run filled the day's quota itself and stopped with jobs left
C14_Witness ==
    /\ pc = "done" /\ stop = "limit"
    /\ ledger.status = "ok"
    /\ job_idx <= Len(all_jobs)
    /\ TodayCount(ledger.rows) = config.rate_limit_per_day
    /\ C14_TodayAtStart < config.rate_limit_per_day

\* the jobs of all_jobs an e-mail was sent for, successfully or not
C15_SendAttempts == {i \in DOMAIN job_outcome : job_outcome[i] \in {"sent", "failed"}}

\* C15: no two send attempts of a run are for jobs with the same DedupKey,
\* also when the searches of two keywords return the same posting
C15_OneSendAttemptPerPosting ==
    \A i, j \in C15_SendAttempts :
        i # j => C5_Key(all_jobs[i]) # C5_Key(all_jobs[j])
=============================================================================
